---------------------------- MODULE Spec2Model ----------------------------
(***************************************************************************)
(* The streaming engine of typewriting-monkey: the deterministic generator *)
(* (Monkey), the Firestore chunk store with its cursor-flush timer, the    *)
(* sliding-window word detector and the tick loop that broadcasts char and *)
(* word events.  Strings are sequences of character codes.  One Node.js    *)
(* macrotask runs to its next I/O await before another starts: `running`   *)
(* names the tick callback whose microtasks are executing.                 *)
(***************************************************************************)
EXTENDS Integers, Sequences, FiniteSets, TLC

(* ------------------------------ bounds ------------------------------- *)
\* chunk size, scaled down from 8192 (chunk-store.ts)
CHUNK_SIZE == 2
\* appends per behaviour
MaxCursor == 4
\* largest emitCnt one tick of the generation loop computes
MaxEmit == 2
\* backend batch commits that fail per behaviour
MaxFails == 1
\* crash + restart per behaviour
MaxRestarts == 1
\* largest letter of uniformIntDistribution(0, 25, rng), scaled down from 25
MaxLetter == 2
\* bits of one raw PRNG output, scaled down from 32
RngBits == 3
\* LRU capacity, scaled down from 32
LruMax == 2
\* longest dictionary word looked for, scaled down from 12
MAX_LEN == 5
\* pending words that make addWord flush at once, scaled down from 16
WORD_BATCH_SIZE == 2
\* largest startPosition / number of draws compared for the generator alone
MaxStart == 4
MaxDraws == 4

(* ------------------------- program constants ------------------------- *)
MIN_LEN == 3
CharBase == 97
ContextLen == 20
ScanContext == 20

\* tick callbacks that can be pending at once (setInterval starts a new
\* async callback whether or not the previous one has finished)
Slots == {1, 2}

\* the seeds tried for the engine (the source has one, 0x6C656F); the
\* generator alone is tried on every seed
Seeds == {0, 4}

Min(a, b) == IF a < b THEN a ELSE b
Max(a, b) == IF a > b THEN a ELSE b

(* ---------------------------- generator ------------------------------ *)
RngMod == 2 ^ RngBits

\* one raw step of the generator (rng.unsafeNext()): a full-period
\* congruential step standing for xoroshiro128plus; the output is the state
UnsafeNext(s) == (5 * s + 3) % RngMod

\* prand.skipN(rng, n): n raw steps
RECURSIVE SkipN(_, _)
SkipN(s, n) == IF n = 0 THEN s ELSE SkipN(UnsafeNext(s), n - 1)

RangeSize == MaxLetter + 1
MaxAllowed == IF RangeSize > 2 THEN (RngMod \div RangeSize) * RangeSize ELSE RngMod

\* prand.uniformIntDistribution(0, MaxLetter, rng), as pure-rand 7 computes it:
\*   MaxAllowed = rangeSize > 2 ? ~~(0x100000000 / rangeSize) * rangeSize
\*                              : 0x100000000
\*   deltaV = rng.unsafeNext() + 0x80000000
\*   while (deltaV >= MaxAllowed) deltaV = rng.unsafeNext() + 0x80000000
\*   return deltaV % rangeSize
\* a raw output at or above MaxAllowed is rejected and another raw step is
\* taken (for 26 letters, 22 of the 2^32 raw outputs are rejected)
RECURSIVE UniformInt(_)
UniformInt(s) ==
  LET t == UnsafeNext(s)
  IN  IF t >= MaxAllowed THEN UniformInt(t)
      ELSE [letter |-> t % RangeSize, rng |-> t]

\* String.fromCharCode(97 + letter)
CharOf(letter) == CharBase + letter

\* Monkey.advanceRngToPosition
AdvanceRngToPosition(s, position) ==
  IF position > 0 THEN SkipN(s, position) ELSE s

\* p successive draws of a generator (its rng afterwards)
RECURSIVE DrawN(_, _)
DrawN(s, n) == IF n = 0 THEN s ELSE DrawN(UniformInt(s).rng, n - 1)

(* ------------------------------ LRU ---------------------------------- *)
\* the cache is the Map in insertion order, oldest first
CacheHas(c, id) == \E i \in 1..Len(c) : c[i].id = id
CacheGet(c, id) == LET i == CHOOSE j \in 1..Len(c) : c[j].id = id IN c[i].text

RECURSIVE CacheDelete(_, _)
CacheDelete(c, id) ==
  IF c = <<>> THEN <<>>
  ELSE IF Head(c).id = id THEN Tail(c)
  ELSE <<Head(c)>> \o CacheDelete(Tail(c), id)

CacheSet(c, id, text) ==
  LET d == IF CacheHas(c, id) THEN CacheDelete(c, id) ELSE c
      e == Append(d, [id |-> id, text |-> text])
  IN  IF Len(e) > LruMax THEN Tail(e) ELSE e

(* ------------------------------ reads -------------------------------- *)
\* String.prototype.slice(from, to) for 0 <= from
Slice(s, from, to) ==
  IF from >= Len(s) THEN <<>> ELSE SubSeq(s, from + 1, Min(to, Len(s)))

\* readChunk(id) against a store (wid, wk, c) and the backend documents db:
\* the text returned and the cache afterwards
ReadChunk(wid, wk, c, db, id) ==
  IF id = wid THEN [text |-> wk, cache |-> c]
  ELSE IF CacheHas(c, id) THEN [text |-> CacheGet(c, id), cache |-> c]
  ELSE LET text == IF id \in DOMAIN db /\ db[id].exists THEN db[id].text ELSE <<>>
       IN  [text |-> text, cache |-> CacheSet(c, id, text)]

RECURSIVE ReadChunks(_, _, _, _, _, _)
ReadChunks(wid, wk, c, db, id, last) ==
  IF id > last THEN [text |-> <<>>, cache |-> c]
  ELSE LET r == ReadChunk(wid, wk, c, db, id)
           rest == ReadChunks(wid, wk, r.cache, db, id + 1, last)
       IN  [text |-> r.text \o rest.text, cache |-> rest.cache]

\* readSlice(start, len)
ReadSlice(wid, wk, c, db, start, len) ==
  IF len <= 0 THEN [text |-> <<>>, cache |-> c]
  ELSE LET first == start \div CHUNK_SIZE
           last == (start + len - 1) \div CHUNK_SIZE
           r == ReadChunks(wid, wk, c, db, first, last)
           offset == start - first * CHUNK_SIZE
       IN  [text |-> Slice(r.text, offset, offset + len), cache |-> r.cache]

(* ----------------------------- detector ------------------------------ *)
\* data/words.txt as the engine finds it, one entry shorter than MIN_LEN
DictFile ==
  { <<97, 99>>, <<97, 99, 99>>, <<99, 99, 98>>, <<97, 99, 99, 98>>,
    <<98, 97, 97>>, <<98, 98, 97>>, <<99, 98, 98>>, <<97, 97, 99>> }

\* the dictionary: the lines of the file (words) no shorter than MIN_LEN
WordsOf(words) == { w \in words : Len(w) >= MIN_LEN }

\* window.slice(-n)
Suffix(w, n) == SubSeq(w, Len(w) - n + 1, Len(w))

\* the loop of push(): n from the longest candidate down to MIN_LEN, the
\* first n whose suffix is a word (0 when the loop ends without one)
\* the loop stopping one short: for (...; n > MIN_LEN; n--)
RECURSIVE ScanOff(_, _, _)
ScanOff(words, w, n) ==
  IF n <= MIN_LEN THEN 0
  ELSE IF Suffix(w, n) \in WordsOf(words) THEN n
  ELSE ScanOff(words, w, n - 1)

\* the loop running from MIN_LEN upwards: the shortest word wins
ScanUp(words, w, n) ==
  LET S == { m \in MIN_LEN..n : Suffix(w, m) \in WordsOf(words) }
  IN  IF S = {} THEN 0 ELSE CHOOSE m \in S : \A k \in S : m <= k

RECURSIVE Scan(_, _, _)
Scan(words, w, n) ==
  IF n < MIN_LEN THEN 0
  ELSE IF Suffix(w, n) \in WordsOf(words) THEN n
  ELSE Scan(words, w, n - 1)

\* push() without the break: every word ending here is emitted, longest first
RECURSIVE AllHits(_, _, _, _)
AllHits(words, w, n, pos) ==
  IF n < MIN_LEN THEN <<>>
  ELSE (IF Suffix(w, n) \in WordsOf(words)
        THEN << [start |-> pos - n + 1, len |-> n, word |-> Suffix(w, n)] >>
        ELSE <<>>) \o AllHits(words, w, n - 1, pos)
PushAll(words, w, ch, pos) ==
  LET w1 == Append(w, ch)
      w2 == IF Len(w1) > MAX_LEN THEN Tail(w1) ELSE w1
  IN  [window |-> w2, hits |-> AllHits(words, w2, Min(MAX_LEN, Len(w2)), pos)]

\* WordDetector.push(ch, absolutePosition) with the dictionary file words:
\* the window afterwards and the hits emitted
PushIn(words, w, ch, pos) ==
  LET w1 == Append(w, ch)
      w2 == IF Len(w1) > MAX_LEN THEN Tail(w1) ELSE w1
      n == Scan(words, w2, Min(MAX_LEN, Len(w2)))
  IN  [window |-> w2,
       hits |-> IF n = 0 THEN <<>>
                ELSE << [start |-> pos - n + 1, len |-> n,
                         word |-> Suffix(w2, n)] >>]

(* ----------------------------- word store ---------------------------- *)
\* the backend's words collection is a set of hits, one per document id
\* word_{start}_{len}; batch.set of a sequence of hits, the later of two
\* hits with one id replacing the earlier
\* the document id computed from the length alone: word_{len}
DocIdLen(h) == << h.len >>

\* the document id of a hit: `word_${word.start}_${word.len}`
DocId(h) == << h.start, h.len >>

WordsPut(db, batch) ==
  LET I == 1..Len(batch)
      SameId(a, b) == DocId(a) = DocId(b)
  IN  { d \in db : \A i \in I : ~SameId(d, batch[i]) }
      \cup { batch[i] : i \in { j \in I : \A k \in I : k > j => ~SameId(batch[j], batch[k]) } }

\* batch.commit() of a batch has resolved: its hits are counted in c
Committed(c, batch) ==
  LET I == 1..Len(batch)
      B == { batch[i] : i \in I }
  IN  [once |-> c.once \cup B,
       twice |-> c.twice \cup (c.once \cap B)
                 \cup { batch[i] : i \in { j \in I : \E k \in I : k # j /\ batch[k] = batch[j] } }]

\* orderBy("start", "asc"): by start, documents of one start by their id
HitBefore(a, b) == a.start < b.start \/ (a.start = b.start /\ a.len < b.len)
RECURSIVE SortHits(_)
SortHits(S) ==
  IF S = {} THEN <<>>
  ELSE LET m == CHOOSE h \in S : \A k \in S \ {h} : HitBefore(h, k)
       IN  << m >> \o SortHits(S \ {m})

\* loadWords(): the hits returned and lastPersistedPosition afterwards
LoadWords(db) ==
  LET ws == SortHits(db)
  IN  [words |-> ws,
       last |-> IF ws = <<>> THEN 0 ELSE ws[Len(ws)].start + ws[Len(ws)].len]

\* addWord(h) up to its await or return: pendingWords, the flush timer and
\* lastPersistedPosition afterwards, and the batch flush() builds when the
\* pending words reach WORD_BATCH_SIZE (empty: scheduleFlush arms the timer)
AddWord(pending, timer, last, h) ==
  LET p == Append(pending, h)
      l == Max(last, h.start + h.len)
  IN  IF Len(p) >= WORD_BATCH_SIZE
      THEN [pending |-> p, timer |-> timer, last |-> l, batch |-> p]
      ELSE [pending |-> p, timer |-> TRUE, last |-> l, batch |-> <<>>]

\* the listener's addWord calls for the hits of one push, none awaited:
\* the batches put in flight
RECURSIVE AddWords(_, _, _, _)
AddWords(pending, timer, last, hs) ==
  IF hs = <<>>
  THEN [pending |-> pending, timer |-> timer, last |-> last, batches |-> <<>>]
  ELSE LET a == AddWord(pending, timer, last, Head(hs))
           r == AddWords(a.pending, a.timer, a.last, Tail(hs))
       IN  [r EXCEPT !.batches =
              (IF a.batch = <<>> THEN <<>> ELSE << a.batch >>) \o r.batches]

\* startup: "for (const word of missingWords) await addWord(word)" and then
\* "await flush()", up to the next commit awaited: the batch in flight
\* (empty when startup is over), the words still to add, and whether the
\* batch is the one of the closing flush()
RECURSIVE StartupAdd(_, _, _, _)
StartupAdd(pending, timer, last, rest) ==
  IF rest = <<>>
  THEN [pending |-> pending, timer |-> timer, last |-> last,
        batch |-> pending, rest |-> <<>>, final |-> TRUE]
  ELSE LET a == AddWord(pending, timer, last, Head(rest))
       IN  IF a.batch # <<>>
           THEN [pending |-> a.pending, timer |-> a.timer, last |-> a.last,
                 batch |-> a.batch, rest |-> Tail(rest), final |-> FALSE]
           ELSE StartupAdd(a.pending, a.timer, a.last, Tail(rest))

(* ------------------------------ state -------------------------------- *)
VARIABLES
  seed,            \* the generator's seed (0x6C656F in the source)
  rng,             \* Monkey.rng
  cursor,          \* FirestoreChunkStore._cursor
  workingChunk,    \* FirestoreChunkStore.workingChunk
  workingChunkId,  \* FirestoreChunkStore.workingChunkId
  cursorDirty,     \* FirestoreChunkStore.cursorDirty
  cache,           \* FirestoreChunkStore.cache (LRUCache.map)
  dbCursor,        \* backend meta/cursor.index, NoCursor when absent
  dbChunks,        \* backend chunks/chunk_{id}
  window,          \* the live WordDetector's window
  cb,              \* the pending callbacks of the generation loop
  running,         \* the callbacks whose microtasks are running: none or one
  fc,              \* the flushCursor call in flight, if any
  events,          \* what was pushed to the detector and broadcast, in order
  written,         \* index -> character appended at that index (by this run or an earlier one)
  ret,             \* index -> character for which append returned that index
  appendCount,     \* appends the cursor stands for: those recovered and those made since
  flushedAt,       \* appendCount when the batch last committed was built
  flushFailed,     \* a rollover commit failed since the last (re)start
  fails,           \* failed commits so far
  restarts,        \* restarts so far
  cl,              \* startup and the SIGTERM handler: the position and the batch awaited
  atClose,         \* the cursor, the text and the hits when SIGTERM arrived
  hits,            \* the server's hits array
  pendingWords,    \* WordStore.pendingWords
  flushTimer,      \* WordStore.flushTimer is armed
  lastPersistedPosition, \* WordStore.lastPersistedPosition
  dbWords,         \* backend words/word_{start}_{len}
  wf,              \* the batches of the word flushes in flight
  commits,         \* the hits of the batches committed: once or more, twice or more
  sub,             \* one socket: connected, the cursor it was sent, the char indices it received
  rate,            \* the generation loop's carry and what it has broadcast
  resp,            \* the last GET /chars exchange: the query and the response
  rf,              \* the backend fetch of a readChunk in flight, if any
  startPos,        \* generator alone: the startPosition compared
  gSkip,           \* generator alone: rng of new Monkey(store, startPos)
  gFresh,          \* generator alone: rng of new Monkey(store, 0), startPos draws later
  drawn,           \* generator alone: next() calls made on both
  chSkip,          \* generator alone: last character of the first
  chFresh,         \* generator alone: last character of the second
  dictFile,        \* the lines of data/words.txt
  dPos,            \* detector alone: the position of the next push
  dWindow,         \* detector alone: the detector's window
  dPushed,         \* detector alone: the characters pushed so far
  dLast,           \* detector alone: the hits the last push emitted
  dHits            \* detector alone: the hits the listener has observed, with
                   \* the position of the push that emitted each

wordVars ==
  << hits, pendingWords, flushTimer, lastPersistedPosition, dbWords, wf, commits >>
engineVars ==
  << rng, cursor, workingChunk, workingChunkId, cursorDirty, cache, dbCursor,
     dbChunks, window, cb, running, fc, events, ret, written, appendCount, flushedAt,
     flushFailed, fails, restarts, cl, atClose, wordVars >>
genVars == << startPos, gSkip, gFresh, drawn, chSkip, chFresh >>
detVars == << dPos, dWindow, dPushed, dLast, dHits >>
ioVars == << sub, rate, resp, rf >>
vars == << seed, dictFile, engineVars, ioVars, genVars, detVars >>

\* the engine's dictionary and detector
WORDS == WordsOf(dictFile)
Push(w, ch, pos) == PushIn(dictFile, w, ch, pos)

\* initializeDetector: the context pushed through the detector before the
\* "word" listener is attached; only the window is kept
RECURSIVE PrimeWindow(_, _, _)
PrimeWindow(w, text, pos) ==
  IF text = <<>> THEN w
  ELSE PrimeWindow(Push(w, Head(text), pos).window, Tail(text), pos + 1)

NoCursor == 0 - 1
\* the slice lengths readers ask for: one chunk, or into the next chunk
ReadLens == {CHUNK_SIZE, CHUNK_SIZE + 1}
MaxReadLen == CHUNK_SIZE + 1
NoChar == CharBase - 1
MaxChunkId == (MaxCursor + MaxReadLen) \div CHUNK_SIZE + 1
ChunkIds == 0..MaxChunkId
NoDoc == [exists |-> FALSE, text |-> <<>>]
Doc(text) == [exists |-> TRUE, text |-> text]

IdleCb == [pc |-> "idle", left |-> 0, idx |-> 0, ch |-> NoChar,
           bid |-> 0, btext |-> <<>>, bcur |-> 0, bcount |-> 0]
IdleFc == [pc |-> "idle", bid |-> 0, btext |-> <<>>, bcur |-> 0, bcount |-> 0]
IdleCl == [pc |-> "idle", bid |-> 0, btext |-> <<>>, bcur |-> 0, bcount |-> 0,
           wbatch |-> <<>>, rest |-> <<>>, final |-> FALSE]
NoCommits == [once |-> {}, twice |-> {}]
NoClose == [cur |-> NoCursor, text |-> <<>>, hits |-> {}]

\* the process serves: startup is over and the SIGTERM handler has not
\* reached process.exit ("words": awaiting wordStore.close(), "commit":
\* awaiting store.close())
Alive == cl.pc \in {"idle", "words", "commit"}
\* the process exists
Up == Alive \/ cl.pc = "startup"

\* no socket is connected; the loop's carry at process start; no request
\* yet; no fetch in flight
NoSub == [on |-> FALSE, snap |-> 0, got |-> <<>>]
IdleRate == [users |-> 0, carry |-> 0, ticks |-> 0]
NoResp == [start |-> <<"absent", 0>>, len |-> <<"absent", 0>>, status |-> 0, text |-> <<>>]
IdleRf == [pc |-> "idle", id |-> 0, text |-> <<>>]
IoIdle ==
  /\ sub = NoSub
  /\ rate = IdleRate
  /\ resp = NoResp
  /\ rf = IdleRf

\* the state of a process on an empty backend: create() finds no cursor
InitEngine ==
  /\ rng = AdvanceRngToPosition(seed, 0)
  /\ cursor = 0
  /\ workingChunk = <<>>
  /\ workingChunkId = 0
  /\ cursorDirty = FALSE
  /\ cache = <<>>
  /\ dbCursor = NoCursor
  /\ dbChunks = [id \in ChunkIds |-> NoDoc]
  /\ window = <<>>
  /\ cb = [s \in Slots |-> IdleCb]
  /\ running = {}
  /\ fc = IdleFc
  /\ events = <<>>
  /\ written = [i \in 0..(MaxCursor - 1) |-> NoChar]
  /\ ret = [i \in 0..(MaxCursor - 1) |-> NoChar]
  /\ appendCount = 0
  /\ flushedAt = 0
  /\ flushFailed = FALSE
  /\ fails = 0
  /\ restarts = 0
  /\ cl = IdleCl
  /\ atClose = NoClose
  /\ hits = <<>>
  /\ pendingWords = <<>>
  /\ flushTimer = FALSE
  /\ lastPersistedPosition = 0
  /\ dbWords = {}
  /\ wf = <<>>
  /\ commits = NoCommits

\* the variables of the generator alone and of the detector alone, at rest
GenIdle ==
  /\ startPos = 0
  /\ gSkip = seed
  /\ gFresh = seed
  /\ drawn = 0
  /\ chSkip = NoChar
  /\ chFresh = NoChar
DetIdle ==
  /\ dPos = 0
  /\ dWindow = <<>>
  /\ dPushed = <<>>
  /\ dLast = <<>>
  /\ dHits = <<>>

Init ==
  /\ seed \in Seeds
  /\ dictFile = DictFile
  /\ InitEngine
  /\ IoIdle
  /\ GenIdle
  /\ DetIdle

(* --------------------------- chunk store ----------------------------- *)
\* the batch flush() builds for the full chunk: chunk_{id} and meta/cursor
FlushBatch(id, wk, cur) == [bid |-> id, btext |-> wk, bcur |-> cur]

\* flushCursor() writing the index of the next-but-one character
CursorBatchAhead(id, wk, cur) == [bid |-> id, btext |-> wk, bcur |-> cur + 1]

\* the batch flushCursor() builds: chunk_{workingChunkId} and meta/cursor
CursorBatch(id, wk, cur) == [bid |-> id, btext |-> wk, bcur |-> cur]

\* batch.commit() succeeding: both documents are set atomically
Commit(b) ==
  /\ dbChunks' = [dbChunks EXCEPT ![b.bid] = Doc(b.btext)]
  /\ dbCursor' = b.bcur

(* ------------------------- generation loop --------------------------- *)
\* the setInterval callback starts: emitCnt = n characters are due
Tick(s) ==
  /\ Alive
  /\ running = {}
  /\ cb[s].pc = "idle"
  /\ \A t \in Slots : t < s => cb[t].pc # "idle"
  /\ cursor < MaxCursor
  /\ \E n \in 1..MaxEmit :
       cb' = [cb EXCEPT ![s] = [IdleCb EXCEPT !.pc = "loop", !.left = n]]
  /\ running' = {s}
  /\ UNCHANGED << seed, dictFile, rng, cursor, workingChunk, workingChunkId, cursorDirty,
                  cache, dbCursor, dbChunks, window, fc, events, ret, written,
                  appendCount, flushedAt, flushFailed, fails, restarts, cl, atClose, wordVars, ioVars, genVars, detVars >>

\* one iteration calls monkey.next(): the draw, then store.append up to its
\* return or to the await of the rollover commit
Next1(s) ==
  /\ Alive
  /\ running = {s}
  /\ cb[s].pc = "loop"
  /\ IF cursor >= MaxCursor
     THEN /\ cb' = [cb EXCEPT ![s] = IdleCb]
          /\ running' = {}
          /\ UNCHANGED << rng, cursor, workingChunk, cursorDirty, ret, written,
                          appendCount >>
     ELSE LET d == UniformInt(rng)
              ch == CharOf(d.letter)
              idx == cursor
              wk == Append(workingChunk, ch)
          IN  /\ rng' = d.rng
              /\ cursor' = cursor + 1
              /\ workingChunk' = wk
              /\ cursorDirty' = TRUE
              /\ appendCount' = appendCount + 1
              /\ written' = [written EXCEPT ![idx] = ch]
              /\ IF Len(wk) = CHUNK_SIZE
                 THEN LET b == FlushBatch(workingChunkId, wk, cursor + 1)
                      IN  /\ cb' = [cb EXCEPT ![s] =
                                  [pc |-> "commit", left |-> cb[s].left,
                                   idx |-> idx, ch |-> ch, bid |-> b.bid,
                                   btext |-> b.btext, bcur |-> b.bcur,
                                   bcount |-> appendCount + 1]]
                          /\ running' = {}
                          /\ ret' = ret
                 ELSE /\ cb' = [cb EXCEPT ![s] =
                              [IdleCb EXCEPT !.pc = "emit", !.left = cb[s].left,
                                             !.idx = idx, !.ch = ch]]
                      /\ running' = {s}
                      /\ ret' = [ret EXCEPT ![idx] = ch]
  /\ UNCHANGED << seed, dictFile, workingChunkId, cache, dbCursor, dbChunks, window, fc,
                  events, flushedAt, flushFailed, fails, restarts, cl, atClose, wordVars, ioVars, genVars, detVars >>

\* the rollover commit succeeds: flush() finishes, append returns idx
FlushCommitOk(s) ==
  /\ Alive
  /\ running = {}
  /\ cb[s].pc = "commit"
  /\ Commit(cb[s])
  /\ cursorDirty' = FALSE
  /\ cache' = CacheSet(cache, cb[s].bid, workingChunk)
  /\ workingChunkId' = workingChunkId + 1
  /\ workingChunk' = <<>>
  /\ flushedAt' = cb[s].bcount
  /\ written' = written
  /\ ret' = [ret EXCEPT ![cb[s].idx] = cb[s].ch]
  /\ cb' = [cb EXCEPT ![s] = [IdleCb EXCEPT !.pc = "emit", !.left = cb[s].left,
                                            !.idx = cb[s].idx, !.ch = cb[s].ch]]
  /\ running' = {s}
  /\ UNCHANGED << seed, dictFile, rng, cursor, window, fc, events, appendCount,
                  flushFailed, fails, restarts, cl, atClose, wordVars, ioVars, genVars, detVars >>

\* the rollover commit fails: flush, append and next throw, the callback's
\* catch logs the error and the callback ends
FlushCommitFail(s) ==
  /\ Alive
  /\ running = {}
  /\ cb[s].pc = "commit"
  /\ fails < MaxFails
  /\ fails' = fails + 1
  /\ flushFailed' = TRUE
  /\ cb' = [cb EXCEPT ![s] = IdleCb]
  /\ UNCHANGED << seed, dictFile, rng, cursor, workingChunk, workingChunkId, cursorDirty,
                  cache, dbCursor, dbChunks, window, running, fc, events, ret, written,
                  appendCount, flushedAt, restarts, cl, atClose, wordVars, ioVars, genVars, detVars >>

\* what one tick {index, ch} gives the subscribers: monkey.next() emits
\* "tick" (detector.push, and io.emit("word") for a hit) before it returns,
\* and the loop then does io.emit("char")
TickEvents(hs, idx) ==
  << <<"push", idx, 0>> >>
  \o [i \in 1..Len(hs) |-> <<"word", hs[i].start, hs[i].len>>]
  \o << <<"char", idx, 0>> >>

\* monkey.next() resumes after append: the tick event (the "word" listener
\* pushes the hit to hits, broadcasts it and calls addWord without awaiting
\* it), then the char event
Emit(s) ==
  /\ Alive
  /\ running = {s}
  /\ cb[s].pc = "emit"
  /\ LET p == Push(window, cb[s].ch, cb[s].idx)
         a == AddWords(pendingWords, flushTimer, lastPersistedPosition, p.hits)
     IN  /\ window' = p.window
         /\ events' = events \o TickEvents(p.hits, cb[s].idx)
         /\ hits' = hits \o p.hits
         /\ pendingWords' = a.pending
         /\ flushTimer' = a.timer
         /\ lastPersistedPosition' = a.last
         /\ wf' = wf \o a.batches
  /\ sub' = IF sub.on THEN [sub EXCEPT !.got = Append(@, cb[s].idx)] ELSE sub
  /\ IF cb[s].left > 1
     THEN /\ cb' = [cb EXCEPT ![s] = [IdleCb EXCEPT !.pc = "loop",
                                                   !.left = cb[s].left - 1]]
          /\ running' = {s}
     ELSE /\ cb' = [cb EXCEPT ![s] = IdleCb]
          /\ running' = {}
  /\ UNCHANGED << seed, dictFile, rng, cursor, workingChunk, workingChunkId, cursorDirty,
                  cache, dbCursor, dbChunks, fc, ret, written, appendCount, flushedAt,
                  flushFailed, fails, restarts, cl, atClose, dbWords, commits, rate, resp, rf,
                  genVars, detVars >>

(* ------------------------ cursor-flush timer ------------------------- *)
\* the 2 s timer calls flushCursor(), which builds its batch and awaits
CursorTimer ==
  /\ cl.pc \in {"idle", "words"}
  /\ running = {}
  /\ fc.pc = "idle"
  /\ cursorDirty
  /\ LET b == CursorBatch(workingChunkId, workingChunk, cursor)
     IN  fc' = [pc |-> "commit", bid |-> b.bid, btext |-> b.btext,
                bcur |-> b.bcur, bcount |-> appendCount]
  /\ UNCHANGED << seed, dictFile, rng, cursor, workingChunk, workingChunkId, cursorDirty,
                  cache, dbCursor, dbChunks, window, cb, running, events, ret, written,
                  appendCount, flushedAt, flushFailed, fails, restarts, cl, atClose, wordVars, ioVars, genVars, detVars >>

CursorCommitOk ==
  /\ Alive
  /\ running = {}
  /\ fc.pc = "commit"
  /\ Commit(fc)
  /\ cursorDirty' = FALSE
  /\ flushedAt' = fc.bcount
  /\ fc' = IdleFc
  /\ UNCHANGED << seed, dictFile, rng, cursor, workingChunk, workingChunkId, cache,
                  window, cb, running, events, ret, written, appendCount, flushFailed,
                  fails, restarts, cl, atClose, wordVars, ioVars, genVars, detVars >>

\* a flushCursor that clears the dirty flag when its commit fails
CursorCommitFailClears ==
  /\ Alive
  /\ running = {}
  /\ fc.pc = "commit"
  /\ fails < MaxFails
  /\ fails' = fails + 1
  /\ fc' = IdleFc
  /\ cursorDirty' = FALSE
  /\ UNCHANGED << seed, dictFile, rng, cursor, workingChunk, workingChunkId,
                  cache, dbCursor, dbChunks, window, cb, running, events, ret, written,
                  appendCount, flushedAt, flushFailed, restarts, cl, atClose, wordVars, ioVars, genVars, detVars >>

\* the commit fails: flushCursor throws, the timer's catch logs it
CursorCommitFail ==
  /\ Alive
  /\ running = {}
  /\ fc.pc = "commit"
  /\ fails < MaxFails
  /\ fails' = fails + 1
  /\ fc' = IdleFc
  /\ UNCHANGED << seed, dictFile, rng, cursor, workingChunk, workingChunkId, cursorDirty,
                  cache, dbCursor, dbChunks, window, cb, running, events, ret, written,
                  appendCount, flushedAt, flushFailed, restarts, cl, atClose, wordVars, ioVars, genVars, detVars >>

(* ------------------------------ readers ------------------------------ *)
\* GET /v1/chars: store.readSlice(start, len), which fills the LRU; the
\* client's getChunk asks for start = id * CHUNK, len = CHUNK
ReadReq ==
  /\ Alive
  /\ running = {}
  /\ \E id \in 0..(cursor \div CHUNK_SIZE), len \in ReadLens :
       cache' = ReadSlice(workingChunkId, workingChunk, cache, dbChunks,
                          id * CHUNK_SIZE, len).cache
  /\ UNCHANGED << seed, dictFile, rng, cursor, workingChunk, workingChunkId, cursorDirty,
                  dbCursor, dbChunks, window, cb, running, fc, events, ret, written,
                  appendCount, flushedAt, flushFailed, fails, restarts, cl, atClose, wordVars, ioVars, genVars, detVars >>

(* ----------------------------- GET /chars ---------------------------- *)
\* the route accepts len up to CHUNK_SIZE * 16
LenChunks == 16
CharsLimit == CHUNK_SIZE * LenChunks

\* req.query.start and req.query.len as they arrive: no parameter, a
\* string that is no number, "Infinity", the empty string, or an integer
StartQueries ==
  { <<"absent", 0>>, <<"Infinity", 0>>, <<"empty", 0>> }
  \cup { <<"num", v>> : v \in {-1, 0, 1} }
LenQueries ==
  { <<"text", 0>>, <<"Infinity", 0>>, <<"empty", 0>> }
  \cup { <<"num", v>> : v \in {-1, 1, CharsLimit, CharsLimit + 1} }

\* Number(q): undefined and a non-numeric string give NaN, "Infinity" gives
\* Infinity, "" gives 0
ToNumber(q) ==
  IF q[1] = "num" THEN [fin |-> TRUE, v |-> q[2]]
  ELSE IF q[1] = "empty" THEN [fin |-> TRUE, v |-> 0]
  ELSE [fin |-> FALSE, v |-> 0]

\* the guard with >= in place of > at the upper limit
InvalidRangeGe(start, len) ==
  \/ ~start.fin
  \/ ~len.fin
  \/ start.v < 0
  \/ len.v <= 0
  \/ len.v >= CHUNK_SIZE * LenChunks

\* the route's guard
InvalidRange(start, len) ==
  \/ ~start.fin
  \/ ~len.fin
  \/ start.v < 0
  \/ len.v <= 0
  \/ len.v > CHUNK_SIZE * LenChunks

\* the route: 400 for an invalid range, else the text of readSlice
CharsReq ==
  /\ Alive
  /\ running = {}
  /\ \E qs \in StartQueries, ql \in LenQueries :
       LET start == ToNumber(qs)
           len == ToNumber(ql)
       IN  IF InvalidRange(start, len)
           THEN /\ resp' = [start |-> qs, len |-> ql, status |-> 400, text |-> <<>>]
                /\ cache' = cache
           ELSE LET r == ReadSlice(workingChunkId, workingChunk, cache, dbChunks,
                                   start.v, len.v)
                IN  /\ resp' = [start |-> qs, len |-> ql, status |-> 200,
                                text |-> r.text]
                    /\ cache' = r.cache
  /\ UNCHANGED << seed, dictFile, rng, cursor, workingChunk, workingChunkId, cursorDirty,
                  dbCursor, dbChunks, window, cb, running, fc, events, ret, written,
                  appendCount, flushedAt, flushFailed, fails, restarts, cl, atClose,
                  wordVars, sub, rate, rf, genVars, detVars >>

(* ------------------------- readChunk in steps ------------------------ *)
\* readChunk(id) for a chunk that is neither the working chunk nor in the
\* LRU: the document get is sent and awaited
FetchStart(id) ==
  /\ Alive
  /\ running = {}
  /\ rf.pc = "idle"
  /\ id # workingChunkId
  /\ ~CacheHas(cache, id)
  /\ rf' = [pc |-> "sent", id |-> id, text |-> <<>>]
  /\ UNCHANGED << seed, dictFile, engineVars, sub, rate, resp, genVars, detVars >>

\* the backend serves the get: the document as it is now, "" when absent
FetchServe ==
  /\ rf.pc = "sent"
  /\ rf' = [rf EXCEPT !.pc = "served",
                      !.text = IF rf.id \in DOMAIN dbChunks /\ dbChunks[rf.id].exists
                               THEN dbChunks[rf.id].text ELSE <<>>]
  /\ UNCHANGED << seed, dictFile, engineVars, sub, rate, resp, genVars, detVars >>

\* the get resolves: this.cache.set(id, text)
FetchDone ==
  /\ Alive
  /\ running = {}
  /\ rf.pc = "served"
  /\ cache' = CacheSet(cache, rf.id, rf.text)
  /\ rf' = IdleRf
  /\ UNCHANGED << seed, dictFile, rng, cursor, workingChunk, workingChunkId, cursorDirty,
                  dbCursor, dbChunks, window, cb, running, fc, events, ret, written,
                  appendCount, flushedAt, flushFailed, fails, restarts, cl, atClose,
                  wordVars, sub, rate, resp, genVars, detVars >>

(* ---------------------------- subscribers ---------------------------- *)
\* a server that listens while startup is still awaiting its commits
ConnectEarly ==
  /\ Up
  /\ running = {}
  /\ ~sub.on
  /\ sub' = [on |-> TRUE, snap |-> cursor, got |-> <<>>]
  /\ UNCHANGED << seed, dictFile, engineVars, rate, resp, rf, genVars, detVars >>

\* io.on("connection"): the socket joins the broadcast set and is sent the
\* cursor in the same synchronous handler; http.listen is called when
\* startup is over
Connect ==
  /\ Alive
  /\ running = {}
  /\ ~sub.on
  /\ sub' = [on |-> TRUE, snap |-> cursor, got |-> <<>>]
  /\ UNCHANGED << seed, dictFile, engineVars, rate, resp, rf, genVars, detVars >>

\* socket.on("disconnect")
Disconnect ==
  /\ Alive
  /\ running = {}
  /\ sub.on
  /\ sub' = NoSub
  /\ UNCHANGED << seed, dictFile, engineVars, rate, resp, rf, genVars, detVars >>

(* ------------------------- word-flush timer -------------------------- *)
\* the 5 s timer set by scheduleFlush calls flush(): nothing to do when no
\* word is pending, else the batch is built and its commit awaited
WordTimer ==
  /\ Up
  /\ running = {}
  /\ flushTimer
  /\ flushTimer' = FALSE
  /\ wf' = IF pendingWords = <<>> THEN wf ELSE Append(wf, pendingWords)
  /\ UNCHANGED << seed, dictFile, rng, cursor, workingChunk, workingChunkId, cursorDirty,
                  cache, dbCursor, dbChunks, window, cb, running, fc, events, ret, written,
                  appendCount, flushedAt, flushFailed, fails, restarts, cl, atClose,
                  hits, pendingWords, lastPersistedPosition, dbWords, commits, ioVars, genVars, detVars >>

\* sequence s without its i-th element
Without(s, i) == SubSeq(s, 1, i - 1) \o SubSeq(s, i + 1, Len(s))

\* the commit of a flush() called by the timer or by addWord succeeds:
\* "this.pendingWords = []", the timer is cleared
WordCommitOk ==
  /\ Up
  /\ running = {}
  /\ \E i \in 1..Len(wf) :
       /\ dbWords' = WordsPut(dbWords, wf[i])
       /\ commits' = Committed(commits, wf[i])
       /\ wf' = Without(wf, i)
  /\ pendingWords' = <<>>
  /\ flushTimer' = FALSE
  /\ UNCHANGED << seed, dictFile, rng, cursor, workingChunk, workingChunkId, cursorDirty,
                  cache, dbCursor, dbChunks, window, cb, running, fc, events, ret, written,
                  appendCount, flushedAt, flushFailed, fails, restarts, cl, atClose,
                  hits, lastPersistedPosition, ioVars, genVars, detVars >>

\* the commit fails: flush throws, the caller's catch logs it; the words
\* stay pending and no timer is set
WordCommitFail ==
  /\ Up
  /\ running = {}
  /\ fails < MaxFails
  /\ fails' = fails + 1
  /\ \E i \in 1..Len(wf) : wf' = Without(wf, i)
  /\ UNCHANGED << seed, dictFile, rng, cursor, workingChunk, workingChunkId, cursorDirty,
                  cache, dbCursor, dbChunks, window, cb, running, fc, events, ret, written,
                  appendCount, flushedAt, flushFailed, restarts, cl, atClose,
                  hits, pendingWords, flushTimer, lastPersistedPosition, dbWords,
                  commits, ioVars, genVars, detVars >>

(* ------------------------------ shutdown ----------------------------- *)
\* store.close() from the handler position c: the cursor timer is cleared
\* and flushCursor() called: nothing to do when the cursor is not dirty
\* (close returns, process.exit(0)), else the batch is built and its commit
\* awaited
CloseStore(c) ==
  IF ~cursorDirty THEN [c EXCEPT !.pc = "done"]
  ELSE LET b == CursorBatch(workingChunkId, workingChunk, cursor)
       IN  [c EXCEPT !.pc = "commit", !.bid = b.bid, !.btext = b.btext,
                     !.bcur = b.bcur, !.bcount = appendCount]

\* process.exit: the pending callbacks, the timers and every call in
\* flight end with the process
Exit ==
  /\ cb' = [s \in Slots |-> IdleCb]
  /\ fc' = IdleFc
  /\ wf' = <<>>
  /\ flushTimer' = FALSE

\* SIGTERM: the handler calls wordStore.close(), which clears the flush
\* timer and calls flush(): its commit is awaited when words are pending,
\* else the handler goes on to store.close(); the generation interval is
\* not cleared
Close ==
  /\ running = {}
  /\ cl.pc = "idle"
  /\ atClose' = [cur |-> cursor,
                 text |-> ReadSlice(workingChunkId, workingChunk, cache, dbChunks,
                                    0, cursor).text,
                 hits |-> { hits[i] : i \in 1..Len(hits) }]
  /\ IF pendingWords # <<>>
     THEN /\ cl' = [IdleCl EXCEPT !.pc = "words", !.wbatch = pendingWords]
          /\ flushTimer' = FALSE
          /\ UNCHANGED << cb, fc, wf >>
     ELSE /\ cl' = CloseStore(IdleCl)
          /\ IF cl'.pc = "done" THEN Exit
             ELSE /\ flushTimer' = FALSE
                  /\ UNCHANGED << cb, fc, wf >>
  /\ UNCHANGED << seed, dictFile, rng, cursor, workingChunk, workingChunkId, cursorDirty,
                  cache, dbCursor, dbChunks, window, running, events,
                  ret, written, appendCount, flushedAt, flushFailed, fails, restarts,
                  hits, pendingWords, lastPersistedPosition, dbWords, commits, ioVars, genVars, detVars >>

\* the commit of wordStore.close()'s flush succeeds: the pending words and
\* the timer are cleared, the handler goes on to store.close()
CloseWordsOk ==
  /\ running = {}
  /\ cl.pc = "words"
  /\ dbWords' = WordsPut(dbWords, cl.wbatch)
  /\ commits' = Committed(commits, cl.wbatch)
  /\ pendingWords' = <<>>
  /\ cl' = CloseStore([cl EXCEPT !.wbatch = <<>>])
  /\ IF cl'.pc = "done" THEN Exit
     ELSE /\ flushTimer' = FALSE
          /\ UNCHANGED << cb, fc, wf >>
  /\ UNCHANGED << seed, dictFile, rng, cursor, workingChunk, workingChunkId, cursorDirty,
                  cache, dbCursor, dbChunks, window, running, events,
                  ret, written, appendCount, flushedAt, flushFailed, fails, restarts,
                  atClose, hits, lastPersistedPosition, ioVars, genVars, detVars >>

\* the commit fails: wordStore.close() throws, the handler logs and does
\* exit(1) without calling store.close()
CloseWordsFail ==
  /\ running = {}
  /\ cl.pc = "words"
  /\ fails < MaxFails
  /\ fails' = fails + 1
  /\ cl' = [IdleCl EXCEPT !.pc = "failed"]
  /\ Exit
  /\ UNCHANGED << seed, dictFile, rng, cursor, workingChunk, workingChunkId, cursorDirty,
                  cache, dbCursor, dbChunks, window, running, events,
                  ret, written, appendCount, flushedAt, flushFailed, restarts,
                  atClose, hits, pendingWords, lastPersistedPosition, dbWords,
                  commits, ioVars, genVars, detVars >>

\* the commit of store.close()'s flushCursor succeeds: close returns, exit(0)
CloseCommitOk ==
  /\ running = {}
  /\ cl.pc = "commit"
  /\ Commit(cl)
  /\ cursorDirty' = FALSE
  /\ flushedAt' = cl.bcount
  /\ cl' = [IdleCl EXCEPT !.pc = "done"]
  /\ Exit
  /\ UNCHANGED << seed, dictFile, rng, cursor, workingChunk, workingChunkId, cache,
                  window, running, events, ret, written, appendCount,
                  flushFailed, fails, restarts, atClose, hits, pendingWords,
                  lastPersistedPosition, dbWords, commits, ioVars, genVars, detVars >>

\* the commit fails: close throws, the handler logs and does exit(1)
CloseCommitFail ==
  /\ running = {}
  /\ cl.pc = "commit"
  /\ fails < MaxFails
  /\ fails' = fails + 1
  /\ cl' = [IdleCl EXCEPT !.pc = "failed"]
  /\ Exit
  /\ UNCHANGED << seed, dictFile, rng, cursor, workingChunk, workingChunkId, cursorDirty,
                  cache, dbCursor, dbChunks, window, running, events,
                  ret, written, appendCount, flushedAt, flushFailed, restarts,
                  atClose, hits, pendingWords, lastPersistedPosition, dbWords,
                  commits, ioVars, genVars, detVars >>

(* ------------------------------ restart ------------------------------ *)
\* FirestoreChunkStore.create(): the store recovered from the backend
Create ==
  LET c0 == IF dbCursor = NoCursor THEN 0 ELSE dbCursor
      id0 == c0 \div CHUNK_SIZE
      wip == dbChunks[id0]
      full == wip.exists /\ Len(wip.text) = CHUNK_SIZE
  IN  [cursor |-> c0,
       workingChunkId |-> IF full THEN id0 + 1 ELSE id0,
       workingChunk |-> IF wip.exists /\ ~full THEN wip.text ELSE <<>>,
       cache |-> IF full THEN CacheSet(<<>>, id0, wip.text) ELSE <<>>]

\* the scanner's chunk of text per read, the size of a store chunk
SCAN_CHUNK_SIZE == CHUNK_SIZE

\* the scanner's listener: of the hits of one push, those that start at or
\* after lastPersistedPosition
RECURSIVE KeepFrom(_, _)
KeepFrom(hs, last) ==
  IF hs = <<>> THEN <<>>
  ELSE (IF Head(hs).start >= last THEN << Head(hs) >> ELSE <<>>)
       \o KeepFrom(Tail(hs), last)

\* the scanner pushing the characters of one read through its detector
RECURSIVE ScanText(_, _, _, _, _)
ScanText(w, text, pos, found, last) ==
  IF text = <<>> THEN [window |-> w, pos |-> pos, found |-> found]
  ELSE LET p == Push(w, Head(text), pos)
       IN  ScanText(p.window, Tail(text), pos + 1,
                    found \o KeepFrom(p.hits, last), last)

\* the while loop of scanMissingWords on the store st
RECURSIVE ScanLoop(_, _, _, _, _, _, _)
ScanLoop(st, c, readPosition, absolutePosition, w, found, last) ==
  IF readPosition >= st.cursor THEN [found |-> found, cache |-> c]
  ELSE LET len == Min(SCAN_CHUNK_SIZE, st.cursor - readPosition)
           r == ReadSlice(st.workingChunkId, st.workingChunk, c, dbChunks,
                          readPosition, len)
           t == ScanText(w, r.text, absolutePosition, found, last)
       IN  ScanLoop(st, r.cache, readPosition + len, t.pos, t.window, t.found, last)

\* StartupScanner.scanMissingWords(last) on the store st with cache c: the
\* hits found and the cache afterwards
ScanMissingWords(st, c, last) ==
  IF last >= st.cursor THEN [found |-> <<>>, cache |-> c]
  ELSE LET startPosition == Max(0, last - ScanContext)
       IN  ScanLoop(st, c, startPosition, startPosition, <<>>, <<>>, last)

\* the process dies (losing what is in RAM and in flight) and starts again:
\* create(), new Monkey(store, store.cursor), loadWords(),
\* initializeDetector(), the startup scan and the persisting of what it
\* found, up to the first commit awaited
Restart ==
  /\ restarts < MaxRestarts
  /\ restarts' = restarts + 1
  /\ LET st == Create
         lw == LoadWords(dbWords)
         contextStart == Max(0, st.cursor - ContextLen)
         contextLen == st.cursor - contextStart
         r == ReadSlice(st.workingChunkId, st.workingChunk, st.cache, dbChunks,
                        contextStart, contextLen)
         m == ScanMissingWords(st, r.cache, lw.last)
         a == StartupAdd(<<>>, FALSE, lw.last, m.found)
     IN  /\ cursor' = st.cursor
         /\ workingChunkId' = st.workingChunkId
         /\ workingChunk' = st.workingChunk
         /\ rng' = AdvanceRngToPosition(seed, st.cursor)
         /\ cache' = m.cache
         /\ window' = PrimeWindow(<<>>, r.text, contextStart)
         /\ written' = [i \in 0..(MaxCursor - 1) |->
                          IF i < st.cursor THEN written[i] ELSE NoChar]
         /\ ret' = [i \in 0..(MaxCursor - 1) |->
                      IF i < st.cursor THEN ret[i] ELSE NoChar]
         /\ hits' = lw.words \o m.found
         /\ pendingWords' = a.pending
         /\ flushTimer' = a.timer
         /\ lastPersistedPosition' = a.last
         /\ cl' = IF a.batch = <<>> THEN IdleCl
                  ELSE [IdleCl EXCEPT !.pc = "startup", !.wbatch = a.batch,
                                      !.rest = a.rest, !.final = a.final]
  /\ cursorDirty' = FALSE
  /\ cb' = [s \in Slots |-> IdleCb]
  /\ running' = {}
  /\ fc' = IdleFc
  /\ wf' = <<>>
  /\ events' = <<>>
  /\ appendCount' = Create.cursor
  /\ flushedAt' = Create.cursor
  /\ flushFailed' = FALSE
  /\ atClose' = NoClose
  /\ sub' = NoSub
  /\ rate' = IdleRate
  /\ rf' = IdleRf
  /\ UNCHANGED << seed, dictFile, dbCursor, dbChunks, dbWords, fails, commits, resp, genVars, detVars >>

\* the commit awaited by startup succeeds: the pending words and the timer
\* are cleared, startup goes on adding the words left and flushing; the
\* generation loop starts when it is over
StartupOk ==
  /\ cl.pc = "startup"
  /\ dbWords' = WordsPut(dbWords, cl.wbatch)
  /\ commits' = Committed(commits, cl.wbatch)
  /\ LET a == IF cl.final
              THEN [pending |-> <<>>, timer |-> FALSE, last |-> lastPersistedPosition,
                    batch |-> <<>>, rest |-> <<>>, final |-> TRUE]
              ELSE StartupAdd(<<>>, FALSE, lastPersistedPosition, cl.rest)
     IN  /\ pendingWords' = a.pending
         /\ flushTimer' = a.timer
         /\ lastPersistedPosition' = a.last
         /\ cl' = IF a.batch = <<>> THEN IdleCl
                  ELSE [IdleCl EXCEPT !.pc = "startup", !.wbatch = a.batch,
                                      !.rest = a.rest, !.final = a.final]
  /\ UNCHANGED << seed, dictFile, rng, cursor, workingChunk, workingChunkId, cursorDirty,
                  cache, dbCursor, dbChunks, window, cb, running, fc, events, ret, written,
                  appendCount, flushedAt, flushFailed, fails, restarts, atClose,
                  hits, wf, ioVars, genVars, detVars >>

\* the commit fails: startup throws, the catch logs and does exit(1)
StartupFail ==
  /\ cl.pc = "startup"
  /\ fails < MaxFails
  /\ fails' = fails + 1
  /\ cl' = [IdleCl EXCEPT !.pc = "failed"]
  /\ Exit
  /\ UNCHANGED << seed, dictFile, rng, cursor, workingChunk, workingChunkId, cursorDirty,
                  cache, dbCursor, dbChunks, window, running, events, ret, written,
                  appendCount, flushedAt, flushFailed, restarts, atClose,
                  hits, pendingWords, lastPersistedPosition, dbWords, commits, ioVars, genVars, detVars >>

\* the process dies and starts again, and a backend read of the startup
\* scan fails: create(), loadWords() and initializeDetector() are done,
\* scanMissingWords throws, the catch logs and does exit(1)
StartupScanFail ==
  /\ restarts < MaxRestarts
  /\ restarts' = restarts + 1
  /\ fails < MaxFails
  /\ fails' = fails + 1
  /\ LET st == Create
         lw == LoadWords(dbWords)
         contextStart == Max(0, st.cursor - ContextLen)
         contextLen == st.cursor - contextStart
         r == ReadSlice(st.workingChunkId, st.workingChunk, st.cache, dbChunks,
                        contextStart, contextLen)
     IN  /\ lw.last < st.cursor
         /\ cursor' = st.cursor
         /\ workingChunkId' = st.workingChunkId
         /\ workingChunk' = st.workingChunk
         /\ rng' = AdvanceRngToPosition(seed, st.cursor)
         /\ cache' = r.cache
         /\ window' = PrimeWindow(<<>>, r.text, contextStart)
         /\ written' = [i \in 0..(MaxCursor - 1) |->
                          IF i < st.cursor THEN written[i] ELSE NoChar]
         /\ ret' = [i \in 0..(MaxCursor - 1) |->
                      IF i < st.cursor THEN ret[i] ELSE NoChar]
         /\ hits' = lw.words
         /\ lastPersistedPosition' = lw.last
  /\ pendingWords' = <<>>
  /\ cl' = [IdleCl EXCEPT !.pc = "failed"]
  /\ Exit
  /\ cursorDirty' = FALSE
  /\ running' = {}
  /\ events' = <<>>
  /\ appendCount' = Create.cursor
  /\ flushedAt' = Create.cursor
  /\ flushFailed' = FALSE
  /\ atClose' = NoClose
  /\ sub' = NoSub
  /\ rate' = IdleRate
  /\ rf' = IdleRf
  /\ UNCHANGED << seed, dictFile, dbCursor, dbChunks, dbWords, commits, resp, genVars, detVars >>

Next ==
  \/ \E s \in Slots : Tick(s)
  \/ \E s \in Slots : Next1(s)
  \/ \E s \in Slots : FlushCommitOk(s)
  \/ \E s \in Slots : FlushCommitFail(s)
  \/ \E s \in Slots : Emit(s)
  \/ CursorTimer
  \/ CursorCommitOk
  \/ CursorCommitFail
  \/ ReadReq
  \/ Close
  \/ CloseWordsOk
  \/ CloseWordsFail
  \/ CloseCommitOk
  \/ CloseCommitFail
  \/ Restart
  \/ StartupOk
  \/ StartupFail

\* the engine with readers, while the word flushes begun by the 5 s timer
\* and by addWord stay in flight (those of startup and shutdown complete)
Spec == Init /\ [][Next]_vars

\* the engine with the word store's timer and commits, without readers
NextWords ==
  \/ \E s \in Slots : Tick(s)
  \/ \E s \in Slots : Next1(s)
  \/ \E s \in Slots : FlushCommitOk(s)
  \/ \E s \in Slots : FlushCommitFail(s)
  \/ \E s \in Slots : Emit(s)
  \/ CursorTimer
  \/ CursorCommitOk
  \/ CursorCommitFail
  \/ WordTimer
  \/ WordCommitOk
  \/ WordCommitFail
  \/ Close
  \/ CloseWordsOk
  \/ CloseWordsFail
  \/ CloseCommitOk
  \/ CloseCommitFail
  \/ Restart
  \/ StartupOk
  \/ StartupFail

SpecWords == Init /\ [][NextWords]_vars

\* crash, startup, the generation loop, the word flushes and one socket
NextBoot ==
  \/ \E s \in Slots : Tick(s)
  \/ \E s \in Slots : Next1(s)
  \/ \E s \in Slots : FlushCommitOk(s)
  \/ \E s \in Slots : FlushCommitFail(s)
  \/ \E s \in Slots : Emit(s)
  \/ WordTimer
  \/ WordCommitOk
  \/ WordCommitFail
  \/ Restart
  \/ StartupScanFail
  \/ StartupOk
  \/ StartupFail
  \/ Connect

SpecBoot == Init /\ [][NextBoot]_vars

\* the generation loop and readChunk calls whose fetch takes time
NextReads ==
  \/ \E s \in Slots : Tick(s)
  \/ \E s \in Slots : Next1(s)
  \/ \E s \in Slots : FlushCommitOk(s)
  \/ \E s \in Slots : FlushCommitFail(s)
  \/ \E s \in Slots : Emit(s)
  \/ \E id \in ChunkIds : FetchStart(id)
  \/ FetchServe
  \/ FetchDone

SpecReads == Init /\ [][NextReads]_vars

\* the generation loop and one socket
NextSubs ==
  \/ \E s \in Slots : Tick(s)
  \/ \E s \in Slots : Next1(s)
  \/ \E s \in Slots : FlushCommitOk(s)
  \/ \E s \in Slots : FlushCommitFail(s)
  \/ \E s \in Slots : Emit(s)
  \/ Connect
  \/ Disconnect

SpecSubs == Init /\ [][NextSubs]_vars

\* the generation loop and the requests of GET /chars
NextChars ==
  \/ \E s \in Slots : Tick(s)
  \/ \E s \in Slots : Next1(s)
  \/ \E s \in Slots : FlushCommitOk(s)
  \/ \E s \in Slots : FlushCommitFail(s)
  \/ \E s \in Slots : Emit(s)
  \/ CharsReq

SpecChars == Init /\ [][NextChars]_vars

(* ----------------------------- rate pacing --------------------------- *)
\* carry is kept as a numerator over RateDen: one tick adds
\* cps * (STEP_MS / 1000) = onlineUsers * 5 / 60 / 60 = onlineUsers / 720
RateDen == 2
MaxTicks == 4
\* onlineUsers(), constant over the interval: half a character, one
\* character and one and a half characters per tick
Users == {1, 2, 3}

\* the appends the callbacks in flight have yet to make
Pending(s) ==
  IF cb[s].pc = "loop" THEN cb[s].left
  ELSE IF cb[s].pc \in {"commit", "emit"} THEN cb[s].left - 1
  ELSE 0
RECURSIVE PendingAll(_)
PendingAll(S) ==
  IF S = {} THEN 0
  ELSE LET s == CHOOSE t \in S : TRUE IN Pending(s) + PendingAll(S \ {s})

\* the setInterval callback with the carry accumulator: carry += cps * step,
\* emitCnt = floor(carry), carry -= emitCnt, then the loop of emitCnt
\* iterations (none when emitCnt = 0)
RateTick(s) ==
  /\ Alive
  /\ running = {}
  /\ cb[s].pc = "idle"
  /\ \A t \in Slots : t < s => cb[t].pc # "idle"
  /\ rate.ticks < MaxTicks
  /\ LET c == rate.carry + rate.users
         emitCnt == c \div RateDen
     IN  /\ cursor + PendingAll(Slots) + emitCnt <= MaxCursor
         /\ rate' = [rate EXCEPT !.carry = c - emitCnt * RateDen, !.ticks = @ + 1]
         /\ IF emitCnt > 0
            THEN /\ cb' = [cb EXCEPT ![s] = [IdleCb EXCEPT !.pc = "loop",
                                                          !.left = emitCnt]]
                 /\ running' = {s}
            ELSE UNCHANGED << cb, running >>
  /\ UNCHANGED << seed, dictFile, rng, cursor, workingChunk, workingChunkId, cursorDirty,
                  cache, dbCursor, dbChunks, window, fc, events, ret, written,
                  appendCount, flushedAt, flushFailed, fails, restarts, cl, atClose,
                  wordVars, sub, resp, rf, genVars, detVars >>

\* an interval starts with any carry in [0, 1) and a constant onlineUsers
InitRate ==
  /\ seed \in Seeds
  /\ dictFile = DictFile
  /\ InitEngine
  /\ GenIdle
  /\ DetIdle
  /\ sub = NoSub
  /\ resp = NoResp
  /\ rf = IdleRf
  /\ rate \in [users : Users, carry : 0..(RateDen - 1), ticks : {0}]

NextRate ==
  \/ \E s \in Slots : RateTick(s)
  \/ \E s \in Slots : Next1(s)
  \/ \E s \in Slots : FlushCommitOk(s)
  \/ \E s \in Slots : FlushCommitFail(s)
  \/ \E s \in Slots : Emit(s)

SpecRate == InitRate /\ [][NextRate]_vars

(* -------------------------- generator alone -------------------------- *)
InitGen ==
  /\ seed \in 0..(RngMod - 1)
  /\ dictFile = DictFile
  /\ DetIdle
  /\ InitEngine
  /\ IoIdle
  /\ startPos \in 0..MaxStart
  /\ gSkip = AdvanceRngToPosition(seed, startPos)
  /\ gFresh = DrawN(seed, startPos)
  /\ drawn = 0
  /\ chSkip = NoChar
  /\ chFresh = NoChar

\* next() on both generators: the drawn-th character of the one constructed
\* with startPosition = startPos, the (startPos + drawn)-th of a fresh one
GenNext ==
  /\ drawn < MaxDraws
  /\ drawn' = drawn + 1
  /\ LET a == UniformInt(gSkip)
         b == UniformInt(gFresh)
     IN  /\ gSkip' = a.rng
         /\ gFresh' = b.rng
         /\ chSkip' = CharOf(a.letter)
         /\ chFresh' = CharOf(b.letter)
  /\ UNCHANGED << seed, dictFile, engineVars, ioVars, startPos, detVars >>

SpecGen == InitGen /\ [][GenNext]_vars

(* -------------------------- detector alone --------------------------- *)
\* the letters pushed: a, c, s, t
DetLetters == {97, 99, 115, 116}
At == <<97, 116>>
Cat == <<99, 97, 116>>
Cats == <<99, 97, 116, 115>>
Scat == <<115, 99, 97, 116>>
Scats == <<115, 99, 97, 116, 115>>
Tact == <<116, 97, 99, 116>>
Attacca == <<97, 116, 116, 97, 99, 99, 97>>
CatDict == {Cat, Cats, Scat}
\* the dictionary files tried
Dicts == {CatDict, {Cat, Scats}, {At, Cat, Tact, Attacca}}
\* the positions a run of pushes starts at
DetStarts == {0, 7}
\* pushes made: enough for the window to lose characters
MaxPushes == MAX_LEN + 2

InitDet ==
  /\ seed \in {s \in Seeds : \A t \in Seeds : s <= t}
  /\ dictFile \in Dicts
  /\ InitEngine
  /\ IoIdle
  /\ GenIdle
  /\ dPos \in DetStarts
  /\ dWindow = <<>>
  /\ dPushed = <<>>
  /\ dLast = <<>>
  /\ dHits = <<>>

\* detector.push(ch, dPos) with a listener that records each hit and the
\* position pushed when it was emitted
DetPush ==
  /\ Len(dPushed) < MaxPushes
  /\ \E ch \in DetLetters :
       LET p == PushIn(dictFile, dWindow, ch, dPos)
       IN  /\ dWindow' = p.window
           /\ dPushed' = Append(dPushed, ch)
           /\ dLast' = p.hits
           /\ dHits' = dHits \o [i \in 1..Len(p.hits) |->
                                   [at |-> dPos, start |-> p.hits[i].start,
                                    len |-> p.hits[i].len,
                                    word |-> p.hits[i].word]]
  /\ dPos' = dPos + 1
  /\ UNCHANGED << seed, dictFile, engineVars, ioVars, genVars >>

SpecDet == InitDet /\ [][DetPush]_vars

(* ------------------------- word store alone -------------------------- *)
\* the hits a detector with the dictionary words emits when text is pushed
\* from position pos on, in the order emitted
RECURSIVE RunHits(_, _, _, _)
RunHits(words, w, text, pos) ==
  IF text = <<>> THEN <<>>
  ELSE LET p == PushIn(words, w, Head(text), pos)
       IN  p.hits \o RunHits(words, p.window, Tail(text), pos + 1)

\* the hits given to the word store: those of the stream s,c,a,t,s,c,a,t
\* with cat and scats in the dictionary
StoreDict == {Cat, Scats}
StoreStream == Scats \o Cat
StoreHits ==
  LET hs == RunHits(StoreDict, <<>>, StoreStream, 0)
  IN  { hs[i] : i \in 1..Len(hs) }
\* hits in the hit list, and flushes in flight at once
MaxHits == 2
MaxFlights == 2

InitStore ==
  /\ seed \in {s \in Seeds : \A t \in Seeds : s <= t}
  /\ dictFile = StoreDict
  /\ InitEngine
  /\ IoIdle
  /\ GenIdle
  /\ DetIdle

\* the "word" listener for a hit of the stream: hits.push(hit) and
\* wordStore.addWord(hit)
StoreAdd ==
  /\ Up
  /\ Len(hits) < MaxHits
  /\ \E h \in StoreHits :
       LET a == AddWord(pendingWords, flushTimer, lastPersistedPosition, h)
       IN  /\ a.batch # <<>> => Len(wf) < MaxFlights
           /\ hits' = Append(hits, h)
           /\ pendingWords' = a.pending
           /\ flushTimer' = a.timer
           /\ lastPersistedPosition' = a.last
           /\ wf' = IF a.batch = <<>> THEN wf ELSE Append(wf, a.batch)
  /\ UNCHANGED << seed, dictFile, rng, cursor, workingChunk, workingChunkId, cursorDirty,
                  cache, dbCursor, dbChunks, window, cb, running, fc, events, ret, written,
                  appendCount, flushedAt, flushFailed, fails, restarts, cl, atClose,
                  dbWords, commits, ioVars, genVars, detVars >>

\* a forced wordStore.flush(): nothing to do when no word is pending, else
\* the batch is built and its commit awaited
StoreFlush ==
  /\ Up
  /\ pendingWords # <<>>
  /\ Len(wf) < MaxFlights
  /\ wf' = Append(wf, pendingWords)
  /\ UNCHANGED << seed, dictFile, rng, cursor, workingChunk, workingChunkId, cursorDirty,
                  cache, dbCursor, dbChunks, window, cb, running, fc, events, ret, written,
                  appendCount, flushedAt, flushFailed, fails, restarts, cl, atClose,
                  hits, pendingWords, flushTimer, lastPersistedPosition, dbWords,
                  commits, ioVars, genVars, detVars >>

\* the word store under addWord and flush calls, its timer, its commits,
\* and a restart of the process (new WordStore, loadWords) on a chunk store
\* that stays empty
NextStore ==
  \/ StoreAdd
  \/ StoreFlush
  \/ WordTimer
  \/ WordCommitOk
  \/ WordCommitFail
  \/ Restart

SpecStore == InitStore /\ [][NextStore]_vars

\* the same, with the timer firing when armed and commits completing: a
\* commit awaited resolves or rejects, and rejects MaxFails times at most
LiveStore ==
  /\ SpecStore
  /\ WF_vars(WordTimer)
  /\ WF_vars(WordCommitOk)

(* ------------------------------ claims ------------------------------- *)
\* the callbacks inside monkey.next(): awaiting the rollover commit, or
\* resumed from append and not yet returned
InNext == { s \in Slots : cb[s].pc \in {"commit", "emit"} }

\* C1: at most one monkey.next() / store.append() call is in flight at any
\* time, also while an append awaits the rollover batch write
C1_OneNextInFlight == Cardinality(InNext) <= 1

EventsOf(kind) == { i \in 1..Len(events) : events[i][1] = kind }

\* C2: char events are broadcast in increasing index order, and detector.push
\* is called in increasing index order
C2_EventsInIndexOrder ==
  \A kind \in {"char", "push"} :
    \A i, j \in EventsOf(kind) : i < j => events[i][2] < events[j][2]

\* C3: a word event {start, len} is broadcast after the char event of its
\* last character, start + len - 1
C3_WordAfterLastChar ==
  \A j \in EventsOf("word") :
    \E i \in EventsOf("char") :
      i < j /\ events[i][2] = events[j][2] + events[j][3] - 1

\* what readSlice(start, len) returns now
ReadNow(start, len) ==
  ReadSlice(workingChunkId, workingChunk, cache, dbChunks, start, len).text

\* C4: once append has returned index i for character c, readSlice(i, 1)
\* returns c ever after
C4_CharImmutable ==
  \A i \in 0..(MaxCursor - 1) : ret[i] # NoChar => ReadNow(i, 1) = << ret[i] >>

\* C5: the k-th character of a generator constructed with startPosition = p
\* equals the (p + k)-th character of a generator constructed at 0
C5_SkipEqualsDraws == drawn > 0 => chSkip = chFresh

RolloverInProgress == \E s \in Slots : cb[s].pc = "commit"

\* C6: the working chunk's id is floor(cursor / C) and its length is
\* cursor mod C, or the length is exactly C (id = floor((cursor - 1) / C))
\* while a rollover write is in progress; never more than C characters
C6_WorkingChunkShape ==
  /\ Len(workingChunk) <= CHUNK_SIZE
  /\ \/ /\ workingChunkId = cursor \div CHUNK_SIZE
        /\ Len(workingChunk) = cursor % CHUNK_SIZE
     \/ /\ RolloverInProgress
        /\ Len(workingChunk) = CHUNK_SIZE
        /\ workingChunkId = (cursor - 1) \div CHUNK_SIZE

\* C7: every chunk id below workingChunkId has a backend document of exactly
\* C characters
C7_FinishedChunksFull ==
  \A id \in ChunkIds :
    id < workingChunkId =>
      dbChunks[id].exists /\ Len(dbChunks[id].text) = CHUNK_SIZE

\* the rollover commit of callback s fails in this step
FlushFails(s) ==
  cb[s].pc = "commit" /\ cb'[s].pc = "idle" /\ restarts' = restarts

\* C8: when the rollover batch write fails during append(ch), the cursor and
\* the working buffer are what they were before that append call
C8_FailedAppendLeavesStore ==
  [][\A s \in Slots :
       FlushFails(s) =>
         /\ cursor' = cb[s].idx
         /\ workingChunk' = SubSeq(cb[s].btext, 1, Len(cb[s].btext) - 1)]_vars

\* C9: after a rollover batch write has failed, nothing is appended,
\* pushed to the detector or broadcast until the process is restarted
C9_HaltAfterFlushFailure ==
  [][(flushFailed /\ flushFailed') => (cursor' = cursor /\ events' = events)]_vars

PersistedCursor == IF dbCursor = NoCursor THEN 0 ELSE dbCursor

BackendText(id) == IF dbChunks[id].exists THEN dbChunks[id].text ELSE <<>>

\* C11: after store.close() has returned successfully, meta/cursor.index is
\* the in-memory cursor and the mirrored working chunk is the in-memory
\* working buffer
C11_CloseFlushesAll ==
  cl.pc = "done" =>
    /\ PersistedCursor = cursor
    /\ BackendText(workingChunkId) = workingChunk

\* the process ends through the SIGTERM handler with exit(0) and starts again
CloseThenCreate == cl.pc = "done" /\ restarts' = restarts + 1
\* the set of hits loadWords() returns now
LoadedHits == LET ws == LoadWords(dbWords).words IN { ws[i] : i \in 1..Len(ws) }

\* C12: close() followed by a fresh create() yields a store whose cursor
\* equals the cursor before close and whose readSlice(0, cursor) equals the
\* readSlice(0, cursor) before close; likewise wordStore.close() then
\* loadWords() yields the same set of hits
C12_CloseThenCreateSame ==
  [][CloseThenCreate =>
       /\ cursor' = atClose.cur
       /\ ReadNow(0, cursor)' = atClose.text
       /\ LoadedHits = atClose.hits]_vars

\* the process dies without close() and is started again in this step
Crash == Alive /\ restarts' = restarts + 1

\* the first n characters appended
WrittenPrefix(n) == [i \in 1..n |-> written[i - 1]]

\* C13: after a crash (no close) and a successful create(), with c the
\* recovered cursor, readSlice(0, c) has length c and is the first c
\* characters appended before the crash
C13_CrashRecoversPrefix ==
  [][Crash => ReadNow(0, cursor)' = WrittenPrefix(cursor')]_vars

\* C14: if meta/cursor.index = N then chunk_{floor(N / C)} holds exactly
\* N mod C characters (or is absent when N mod C = 0)
C14_DurableConsistent ==
  dbCursor # NoCursor =>
    Len(BackendText(dbCursor \div CHUNK_SIZE)) = dbCursor % CHUNK_SIZE

\* readSlice(a, b), then readSlice(a + b, c), then readSlice(a, b + c), each
\* with the LRU as the one before left it
SplitReads(a, b, c) ==
  LET r1 == ReadSlice(workingChunkId, workingChunk, cache, dbChunks, a, b)
      r2 == ReadSlice(workingChunkId, workingChunk, r1.cache, dbChunks, a + b, c)
      r3 == ReadSlice(workingChunkId, workingChunk, r2.cache, dbChunks, a, b + c)
  IN  [left |-> r1.text, right |-> r2.text, whole |-> r3.text]

\* C15: for a + b + c <= cursor, readSlice(a, b) followed by
\* readSlice(a + b, c) is readSlice(a, b + c)
C15_SliceConcat ==
  \A a \in 0..cursor : \A b \in 0..(cursor - a) : \A c \in 0..(cursor - a - b) :
    LET r == SplitReads(a, b, c) IN r.left \o r.right = r.whole

\* the characters appended at indices from..(to - 1)
WrittenRange(from, to) == [i \in 1..(to - from) |-> written[from + i - 1]]

\* C16: readSlice(start, len) is empty for len <= 0; readSlice(cursor - 1, 1)
\* is the most recently appended character; readSlice(cursor, k) is empty;
\* a request extending past cursor returns the characters in [start, cursor)
C16_SliceBoundaries ==
  /\ \A start \in 0..cursor : \A len \in (0 - 1)..0 : ReadNow(start, len) = <<>>
  /\ cursor > 0 => ReadNow(cursor - 1, 1) = << written[cursor - 1] >>
  /\ \A k \in 1..MaxReadLen : ReadNow(cursor, k) = <<>>
  /\ \A start \in 0..cursor : \A len \in 1..MaxReadLen :
       start + len > cursor => ReadNow(start, len) = WrittenRange(start, cursor)

\* C17: when append(ch) has returned index i, readChunk of the chunk that
\* was the working chunk holds ch at the offset of i
C17_ReadChunkReflectsAppend ==
  \A s \in Slots :
    cb[s].pc = "emit" =>
      LET t == ReadChunk(workingChunkId, workingChunk, cache, dbChunks,
                         cb[s].idx \div CHUNK_SIZE).text
          off == cb[s].idx % CHUNK_SIZE
      IN  Len(t) > off /\ t[off + 1] = cb[s].ch

\* the last n characters pushed
LastPushed(n) == SubSeq(dPushed, Len(dPushed) - n + 1, Len(dPushed))

\* the lengths n in [MIN_LEN, MAX_LEN] for which the last n characters
\* pushed are a dictionary word
MatchLens ==
  { n \in MIN_LEN..MAX_LEN : n <= Len(dPushed) /\ LastPushed(n) \in dictFile }
MaxOf(S) == CHOOSE n \in S : \A m \in S : m <= n

\* C18: a push emits at most one hit; it emits one iff the last n pushed
\* characters are a dictionary word for some n in [MIN_LEN, MAX_LEN], and
\* then len is the largest such n, start = pos - len + 1 and word is those
\* len characters
C18_PushLongestMatch ==
  dPushed # <<>> =>
    /\ Len(dLast) <= 1
    /\ Len(dLast) = 1 <=> MatchLens # {}
    /\ MatchLens # {} =>
         dLast[1] = [start |-> (dPos - 1) - MaxOf(MatchLens) + 1,
                     len |-> MaxOf(MatchLens),
                     word |-> LastPushed(MaxOf(MatchLens))]

\* a push emitted a hit where a shorter word ends too, the window having
\* lost characters
C18_Witness ==
  /\ Len(dLast) = 1
  /\ Cardinality(MatchLens) > 1
  /\ Len(dPushed) > MAX_LEN

\* the hits observed, as (position pushed, word, len)
HitsAt == [i \in 1..Len(dHits) |-> << dHits[i].at, dHits[i].word, dHits[i].len >>]
\* "scats" has been pushed at positions 0..4 with dictionary cat, cats, scat
ScatsPushed == dictFile = CatDict /\ dPushed = Scats /\ dPos = Len(Scats)

\* C19 as stated: three hits, "cat" at position 2, "scat" at position 3 and
\* "cats" at position 4
C19_ThreeHits ==
  ScatsPushed => HitsAt = << <<2, Cat, 3>>, <<3, Scat, 4>>, <<4, Cats, 4>> >>

\* C19 amended: exactly two hits, "scat" (start 0, len 4) when position 3
\* is pushed and "cats" (start 1, len 4) when position 4 is pushed; "cat",
\* which ends where the longer "scat" ends, is not emitted
C19_TwoHits ==
  ScatsPushed =>
    dHits = << [at |-> 3, start |-> 0, len |-> 4, word |-> Scat],
               [at |-> 4, start |-> 1, len |-> 4, word |-> Cats] >>

C19_Witness == ScatsPushed /\ Len(dHits) = 2

\* C20 as stated: the hits observed are in non-decreasing order of start
C20_StartsNonDecreasing ==
  \A i, j \in 1..Len(dHits) : i < j => dHits[i].start <= dHits[j].start

\* C20 amended: the hits observed are in strictly increasing order of their
\* last position, start + len - 1 (the position pushed)
C20_EndsIncreasing ==
  \A i, j \in 1..Len(dHits) :
    i < j => /\ dHits[i].start + dHits[i].len < dHits[j].start + dHits[j].len
             /\ dHits[j].start + dHits[j].len - 1 = dHits[j].at

\* two hits observed, the later one starting before the earlier one
C20_Witness ==
  \E i, j \in 1..Len(dHits) : i < j /\ dHits[j].start < dHits[i].start

\* C21: for every persisted word document word_{s}_{n} with field word = w:
\* w has length n, MIN_LEN <= n <= MAX_LEN, and readSlice(s, n) = w, in
\* every state of a process that exists, also after a crash in which the
\* word store was flushed more recently than the cursor
C21_WordDocsMatchText ==
  Up => \A d \in dbWords :
          /\ Len(d.word) = d.len
          /\ MIN_LEN <= d.len /\ d.len <= MAX_LEN
          /\ ReadNow(d.start, d.len) = d.word

\* the largest start + len over the persisted hits, 0 when there are none
MaxEnd(db) ==
  IF db = {} THEN 0
  ELSE LET E == { d.start + d.len : d \in db }
       IN  CHOOSE e \in E : \A f \in E : f <= e

\* C22: after loadWords() the word store's high-water mark
\* (lastPersistedPosition) equals the maximum of start + len over all
\* persisted hits, 0 if there are none
C22_HighWaterIsMaxEnd ==
  [][restarts' = restarts + 1 => lastPersistedPosition' = MaxEnd(dbWords)]_vars

\* the first n characters of the stream: n draws of a generator at rng
RECURSIVE StreamFrom(_, _)
StreamFrom(r, n) ==
  IF n = 0 THEN <<>>
  ELSE LET d == UniformInt(r)
       IN  << CharOf(d.letter) >> \o StreamFrom(d.rng, n - 1)
\* the hits of one uninterrupted detector run over positions [0, n)
RunSet(n) ==
  LET hs == RunHits(dictFile, <<>>, StreamFrom(AdvanceRngToPosition(seed, 0), n), 0)
  IN  { hs[i] : i \in 1..Len(hs) }
\* the hits the startup scan found: those of the hit list after the loaded ones
Scanned == SubSeq(hits, Len(LoadWords(dbWords).words) + 1, Len(hits))

\* C23: after a crash at any point and the restart (create, loadWords,
\* startup scan, persisting of the scanned hits) the set of persisted hits
\* equals the set of hits one uninterrupted detector run over the stream
\* positions [0, new cursor) produces
C23_RestartHitsAsOneRun ==
  [][Crash => WordsPut(dbWords, Scanned') = RunSet(cursor')]_vars

\* C24: across restarts the in-memory hit list (the list sent as
\* init-words) never holds two hits with the same (start, len), also when
\* characters between the recovered cursor and hits already persisted are
\* generated and detected again after the restart
C24_NoDuplicateHits ==
  \A i, j \in 1..Len(hits) :
    i < j => ~(hits[i].start = hits[j].start /\ hits[i].len = hits[j].len)

\* wordStore.close(), the forced flush of the SIGTERM handler, has
\* completed successfully: the handler has gone on to store.close()
ForcedFlushDone == cl.pc \in {"commit", "done"}

\* C25: for every hit h, after addWord(h), a forced flush() that completes
\* successfully and then loadWords(), the list returned contains h (the
\* hits added before the flush are those in the hit list when it is called)
C25_AddFlushLoad ==
  [][ForcedFlushDone /\ restarts' = restarts + 1
       => atClose.hits \subseteq LoadedHits]_vars

\* the documents of words/ written for position start and length len
DocsFor(start, len) == { d \in dbWords : d.start = start /\ d.len = len }

\* C26: word persistence is idempotent on (start, len): a hit added and
\* flushed once, or two or more times (in one batch or in several, or again
\* after a restart), has exactly one document in words/, and it is the hit
C26_OneDocPerHit ==
  \A h \in commits.once : DocsFor(h.start, h.len) = {h}
C26_Witness ==
  \E h \in commits.twice : restarts > 0 /\ DocsFor(h.start, h.len) = {h}


\* C27: the first live char event a subscriber receives has an index at or
\* after the cursor it was sent in its snapshot, also when it connects
\* while an append is suspended in its rollover write
C27_FirstLiveAtOrAfterSnapshot ==
  sub.on /\ sub.got # <<>> => sub.got[1] >= sub.snap

\* C28: every character with an index at or after the snapshot cursor,
\* generated while the subscriber is connected, is delivered to it as a
\* char event (seen once the loop's callbacks have all finished)
LoopQuiet == running = {} /\ \A s \in Slots : cb[s].pc = "idle"
Delivered == { sub.got[i] : i \in 1..Len(sub.got) }
C28_NoCharMissed ==
  sub.on /\ LoopQuiet => \A i \in sub.snap..(cursor - 1) : i \in Delivered


\* C29: over an interval of ticks with onlineUsers constant at U, the char
\* events broadcast number floor(ticks * U / 720) give or take one, and
\* carry stays in [0, 1) (counted once the interval's callbacks have all
\* finished)
CharsSent == Cardinality({ i \in 1..Len(events) : events[i][1] = "char" })
CharsDue == (rate.ticks * rate.users) \div RateDen
C29_RateWithinOne ==
  /\ rate.carry \in 0..(RateDen - 1)
  /\ LoopQuiet => CharsSent \in (CharsDue - 1)..(CharsDue + 1)


\* C30: GET /chars responds 400 exactly when start or len is no finite
\* number, start < 0, len <= 0 or len > 16 * CHUNK_SIZE, and else responds
\* with the text of readSlice(start, len); len = 16 * CHUNK_SIZE is
\* accepted and one more is rejected
ClaimRejects(start, len) ==
  \/ ~start.fin
  \/ ~len.fin
  \/ start.v < 0
  \/ len.v <= 0
  \/ len.v > 16 * CHUNK_SIZE
Answered == resp' # resp
Closing == cl.pc \in {"words", "commit"}
C31_NoCharAfterSignal ==
  [][Closing => /\ cursor' = cursor
                /\ events' = events
                /\ \A s \in Slots : cb[s].pc = "idle" => cb'[s].pc = "idle"]_vars


\* C32: no subscriber is accepted and no character is generated before
\* loadAll, the startup scan and the persisting of the scanned hits are
\* over, and never when startup has failed; when startup is over every
\* hit of the hit list (loaded or scanned) is in the backend
Starting == cl.pc \in {"startup", "failed"}
StartupOver == restarts > 0 /\ Alive /\ events = <<>>
C32_ReadyBeforeSubscribers ==
  /\ Starting => /\ ~sub.on
                 /\ events = <<>>
                 /\ \A s \in Slots : cb[s].pc = "idle"
  /\ StartupOver => \A i \in 1..Len(hits) : hits[i] \in dbWords
C32_Witness ==
  /\ StartupOver
  /\ sub.on
  /\ hits # <<>>
  /\ commits.twice = {}
  /\ fails = 0


\* C33: every appended index has exactly one char event and exactly one
\* detector.push, so the positions pushed are 0, 1, ... without a gap, also
\* when an append reported an error (seen once the loop's callbacks have
\* all finished)
EventsAt(kind, idx) == { j \in EventsOf(kind) : events[j][2] = idx }
C33_EveryAppendOnce ==
  LoopQuiet =>
    \A idx \in 0..(cursor - 1) :
      /\ Cardinality(EventsAt("char", idx)) = 1
      /\ Cardinality(EventsAt("push", idx)) = 1


\* C34: a failed write of flushCursor leaves the cursor, the working buffer
\* and the dirty flag as they are, and the timer can run flushCursor again;
\* a flushCursor (first try or retry) writes the in-memory cursor and
\* working chunk of the moment it is called, and when its commit succeeds
\* these are the persisted cursor and the mirrored working chunk
CursorFlushFails ==
  fc.pc = "commit" /\ fc'.pc = "idle" /\ fails' = fails + 1 /\ restarts' = restarts /\ Alive'
CursorFlushStarts == fc.pc = "idle" /\ fc'.pc = "commit"
CursorFlushSucceeds ==
  fc.pc = "commit" /\ fc'.pc = "idle" /\ fails' = fails /\ restarts' = restarts /\ Alive'
IsPending(h) == \E i \in 1..Len(pendingWords) : pendingWords[i] = h
C35_PendingEventuallyWritten ==
  \A h \in StoreHits :
    (IsPending(h) /\ fails > 0 /\ restarts = MaxRestarts) ~> (h \in dbWords)


\* C36: once wordStore.close() has completed successfully with no other
\* flush left in flight, every hit given to addWord before close() was
\* called is in the backend, also a hit added while an earlier flush's
\* commit was in flight
CloseWordsDone ==
  /\ cl.pc \in {"idle", "words"}
  /\ cl'.pc \in {"commit", "done"}
  /\ restarts' = restarts
C36_NoHitLost ==
  [][CloseWordsDone /\ wf = <<>> => atClose'.hits \subseteq dbWords']_vars


\* C37: an LRU entry of a finished chunk is that chunk's full text of
\* CHUNK_SIZE characters, also when a fetch of the chunk that was started
\* before its rollover completes after it
FullText(id) == [k \in 1..CHUNK_SIZE |-> written[id * CHUNK_SIZE + k - 1]]
Finished(id) == id < workingChunkId
C37_CacheHoldsFullChunk ==
  \A i \in 1..Len(cache) :
    Finished(cache[i].id) => cache[i].text = FullText(cache[i].id)


\* C38: on the store recovered from the backend, scanMissingWords(H)
\* returns exactly the hits with start >= H that a detector pushed the
\* whole text [0, cursor) from position 0 emits, with the same starts, and
\* nothing when H >= cursor
WholeRun(st) ==
  RunHits(dictFile, <<>>,
          ReadSlice(st.workingChunkId, st.workingChunk, st.cache, dbChunks,
                    0, st.cursor).text, 0)
C38_ScanIsRunFromH ==
  \A H \in 0..MaxCursor :
    ScanMissingWords(Create, Create.cache, H).found =
      IF H >= Create.cursor THEN <<>> ELSE KeepFrom(WholeRun(Create), H)


\* C39: after a restart, a dictionary word that starts before the first
\* position pushed live and ends at or after it is detected as in one
\* uninterrupted run over the text appended: the live detector broadcasts
\* exactly those spanning hits (seen once the loop's callbacks have all
\* finished)
FirstPushed == events[1][2]
WrittenRun ==
  LET hs == RunHits(dictFile, <<>>, [i \in 1..cursor |-> written[i - 1]], 0)
  IN  { << hs[i].start, hs[i].len >> : i \in 1..Len(hs) }
WordEvents == { << events[j][2], events[j][3] >> : j \in EventsOf("word") }
Spans(h) == h[1] < FirstPushed /\ h[1] + h[2] - 1 >= FirstPushed
C39_SpanningWordDetected ==
  restarts > 0 /\ Alive /\ LoopQuiet /\ events # <<>> =>
    { h \in WordEvents : Spans(h) } = { h \in WrittenRun : Spans(h) }


\* C40: the LRU never holds more than its maximum of entries, and a
\* readChunk cache hit on chunk id makes id the most recent entry, the last
\* to be evicted (seen on a GET /chars of one character of a cached chunk)
HitChunk == ToNumber(resp'.start).v \div CHUNK_SIZE
OneCharHit ==
  /\ Answered
  /\ resp'.status = 200
  /\ ToNumber(resp'.len).v = 1
  /\ HitChunk # workingChunkId
  /\ CacheHas(cache, HitChunk)
C40_HitBecomesMostRecent ==
  [][/\ Len(cache') <= LruMax
     /\ OneCharHit => cache'[Len(cache')].id = HitChunk]_vars

=============================================================================
